---- MODULE Spec2Model ----
(***************************************************************************)
(* VoicePulse hosted widget: the connection state machine of the Widget    *)
(* component (React state, the closures of the last committed render, the  *)
(* connect attempts in flight) and the realtime-session hook it drives;    *)
(* the embed script that installs the launcher and signals the frame; the  *)
(* tool-calling loop of the feedback supervisor; the agent tools that call *)
(* the MCP proxy route, the route itself, and saveSurveyResponse.          *)
(***************************************************************************)
EXTENDS Integers, Sequences, FiniteSets, TLC

\* Bounds of the model.
MaxAttempts == 2      \* connect attempts started in one behaviour
MaxInbox == 1         \* window messages queued for the widget frame
MaxRuns == 2          \* executions of the embed script on one page
MaxClicks == 3        \* launcher and close clicks in one behaviour
MaxText == 1          \* characters in a configuration attribute
MaxItems == 2         \* output items in one reasoning response
MaxRequests == 3      \* reasoning requests of one supervisor invocation
MaxCalls == 3         \* function calls requested in one supervisor invocation
MaxResponse == 3      \* characters in a survey response

Attempts == 1..MaxAttempts
NoSession == 0
Null == "null"
NoError == "null"

Statuses == {"DISCONNECTED", "CONNECTING", "CONNECTED"}
Errors == {NoError, "Missing ephemeral key", "Failed to connect"}

\* Messages the frame can receive: the two protocol messages and unrelated
\* postMessage traffic.
MessageTypes == {"voicepulse.connect", "voicepulse.disconnect", "other"}

\* Transport event types tested by onTransportEvent.
ResponseStartTypes ==
  {"response.created", "response.output_audio.delta", "response.audio.delta",
   "response.output_audio.start", "response.audio.start"}
ResponseEndTypes ==
  {"response.completed", "response.done", "response.output_audio.done",
   "response.audio.done", "response.output_audio.end", "response.audio.end"}
TransportEventTypes ==
  ResponseStartTypes \cup ResponseEndTypes \cup {"session.updated", ""}

\* The events the transport is made to deliver: one that starts a response, one
\* that ends it, and two onTransportEvent ignores (the last has no type).  The
\* other types of TransportEventTypes take the same branches.
DeliveredEventTypes ==
  {"response.created", "response.audio.end", "session.updated", ""}

\* Bodies GET /api/session can answer with; a field that is absent is Null.
KeyValues == {Null, "", "ek"}
\* `throws` stands for fetch() or json() rejecting.
SessionBodies ==
  [throws : {FALSE}, value : KeyValues, client_secret_value : KeyValues]
Thrown == [throws |-> TRUE, value |-> Null, client_secret_value |-> Null]
FetchOutcomes == SessionBodies \cup {Thrown}
NoResult == [throws |-> FALSE, value |-> Null, client_secret_value |-> Null]

\* Record of the last handler: its name and, for a network completion, what
\* the network answered (a handshake answers Thrown or NoResult).
Ran(name) == [name |-> name, result |-> NoResult]
RanWith(name, result) == [name |-> name, result |-> result]
ConnectIntents == {"msg.connect", "click.connect"}
DisconnectIntents == {"msg.disconnect", "click.disconnect"}

\* Life of one connect attempt and of the ConnectionHandle it creates.
\*   none      not started
\*   fetching  credential fetch in flight
\*   opening   handle created, transport handshake in flight
\*   open      handle live
\*   aborted   handle destroyed by disconnect while its handshake was in flight
\*   closed    handle destroyed by disconnect while it was open
\*   failed    the attempt ended in a failure; no handle
Phases == {"none", "fetching", "opening", "open", "aborted", "closed", "failed"}

VARIABLES
  sessionStatus,   \* React state: SessionStatus
  error,           \* React state: displayed error or NoError
  isMuted,         \* React state
  isResponding,    \* React state
  rStatus,         \* sessionStatus of the last committed render (read by closures)
  rMuted,          \* isMuted of the last committed render (effect dependency)
  audioMuted,      \* audio sink: muted
  audioVolume,     \* audio sink: volume
  phase,           \* phase of every connect attempt
  sessionRef,      \* hook: the attempt whose handle is current, or NoSession
  transportMuted,  \* mute state of every handle's transport
  sent,            \* events the widget passed to sendEvent, in order
  inbox,           \* window messages posted to the frame, not yet handled
  op,              \* the handler (and branch) that ran last, with its network result
  torn,            \* a disconnect-intent was handled and no connect-intent accepted since
  \* The page that carries the embed script.
  dom,             \* what the embed script left in the page (see NoDom)
  panelOpen,       \* the panel carries the class vp-open
  contentWindow,   \* iframe.contentWindow: "null", "window" or "throws"
  runs,            \* executions of the embed script that found their script tag
  clicks,          \* launcher and close clicks so far
  \* One invocation of getNextResponseFromFeedbackSupervisor.
  pc,              \* "idle", "awaiting" (a reasoning request is in flight) or "done"
  input,           \* body.input: the request history
  requests,        \* the history carried by every reasoning request issued, in order
  executed,        \* the function calls passed to getToolResponse, in order
  currentResponse, \* the reasoning response handled last
  result,          \* what execute returned
  \* One call of an agent tool through POST /api/mcp.
  tpc,             \* "idle", "toProxy", "upstream", "toCaller" or "returned"
  caller,          \* the agent tool that is executing, or NoTool for another client
  request,         \* the body posted to /api/mcp
  upstreamCalls,   \* the requests the proxy made to the MCP server, in order
  proxyResponse,   \* what POST /api/mcp answered
  toolResult,      \* what the tool's execute returned
  \* One call of saveSurveyResponse.
  spc,             \* "idle", "awaiting" (the POST /api/survey is in flight) or "returned"
  surveyInput,     \* the {questionId, response} execute was given
  surveyRequests,  \* the bodies posted to /api/survey, in order
  surveyResult     \* what execute returned

widgetVars ==
  <<sessionStatus, error, isMuted, isResponding, rStatus, rMuted, audioMuted,
    audioVolume, phase, sessionRef, transportMuted, sent, torn>>
pageVars == <<dom, panelOpen, contentWindow, runs, clicks>>
loopVars == <<pc, input, requests, executed, currentResponse, result>>
mcpVars == <<tpc, caller, request, upstreamCalls, proxyResponse, toolResult>>
surveyVars == <<spc, surveyInput, surveyRequests, surveyResult>>
toolVars == <<mcpVars, surveyVars>>
vars == <<widgetVars, inbox, op, pageVars, loopVars, toolVars>>

----------------------------------------------------------------------------
\* The state as one record, so that every handler is an operator from state
\* to state.
Cur ==
  [sessionStatus |-> sessionStatus, error |-> error, isMuted |-> isMuted,
   isResponding |-> isResponding, rStatus |-> rStatus, rMuted |-> rMuted,
   audioMuted |-> audioMuted, audioVolume |-> audioVolume, phase |-> phase,
   sessionRef |-> sessionRef, transportMuted |-> transportMuted, sent |-> sent,
   torn |-> torn]

Put(w) ==
  /\ sessionStatus' = w.sessionStatus
  /\ error' = w.error
  /\ isMuted' = w.isMuted
  /\ isResponding' = w.isResponding
  /\ rStatus' = w.rStatus
  /\ rMuted' = w.rMuted
  /\ audioMuted' = w.audioMuted
  /\ audioVolume' = w.audioVolume
  /\ phase' = w.phase
  /\ sessionRef' = w.sessionRef
  /\ transportMuted' = w.transportMuted
  /\ sent' = w.sent
  /\ torn' = w.torn
  /\ UNCHANGED <<loopVars, toolVars>>

\* A step of the widget: the page around the frame is left alone.
Set(w) == Put(w) /\ UNCHANGED pageVars

----------------------------------------------------------------------------
\* Pure helpers of the widget.

\* data.value ?? data.client_secret?.value ?? null
fetchEphemeralKey(data) ==
  IF data.value # Null THEN data.value
  ELSE IF data.client_secret_value # Null THEN data.client_secret_value
  ELSE Null

\* JavaScript !key for a string-or-null key.
Falsy(key) == key = Null \/ key = ""

\* The isResponding value onTransportEvent leaves for an event of this type.
onTransportEvent(type, flag) ==
  IF type \in ResponseStartTypes THEN TRUE
  ELSE IF type \in ResponseEndTypes THEN FALSE
  ELSE flag

GreetingItem(by, to) ==
  [type |-> "conversation.item.create", role |-> "user", text |-> "hi",
   by |-> by, to |-> to]
GreetingResponse(by, to) ==
  [type |-> "response.create", role |-> "", text |-> "", by |-> by, to |-> to]

\* Mutant: the response is requested before the greeting item is created.
triggerInitialGreeting_ResponseFirst(log, by, to) ==
  log \o <<GreetingResponse(by, to), GreetingItem(by, to)>>

\* The two sendEvent calls of triggerInitialGreeting, made by attempt `by`
\* while the hook's current session is `to`.
triggerInitialGreeting(log, by, to) ==
  log \o <<GreetingItem(by, to), GreetingResponse(by, to)>>

\* What the isMuted effect writes to the audio sink's volume.
SinkVolume(muted) == IF muted THEN 0 ELSE 1

\* The attempt a newly accepted connect-intent starts.
Started == {i \in Attempts : phase[i] # "none"}
NextAttempt == Cardinality(Started) + 1

----------------------------------------------------------------------------
\* Realtime-session hook (useRealtimeSession). Its source is not part of the
\* files modelled here; it is modelled from the design document: a
\* ConnectionHandle is created on connect and destroyed on disconnect (3), the
\* status is CONNECTING during the handshake and CONNECTED after it, the
\* transport is torn down synchronously on disconnect (4.3), and the only
\* guard against a second connect is the widget's status check (3).

\* connect(): the hook reports CONNECTING and creates the handle of attempt i,
\* which becomes the current one; its transport starts unmuted.
hookConnect(w, i) ==
  [w EXCEPT !.sessionStatus = "CONNECTING",
            !.phase = [@ EXCEPT ![i] = "opening"],
            !.sessionRef = i,
            !.transportMuted = [@ EXCEPT ![i] = FALSE]]

\* The handshake of handle i succeeded: the hook reports CONNECTED.
hookConnected(w, i) ==
  [w EXCEPT !.sessionStatus = "CONNECTED", !.phase = [@ EXCEPT ![i] = "open"]]

\* disconnect(): every handle is destroyed at once and the hook reports
\* DISCONNECTED.
hookDisconnect(w) ==
  [w EXCEPT !.sessionStatus = "DISCONNECTED",
            !.phase = [i \in Attempts |->
                         IF w.phase[i] = "opening" THEN "aborted"
                         ELSE IF w.phase[i] = "open" THEN "closed"
                         ELSE w.phase[i]],
            !.transportMuted = [i \in Attempts |-> FALSE],
            !.sessionRef = NoSession]

\* mute(m): the current handle's transport takes the mute state.
hookMute(w, m) ==
  IF w.sessionRef = NoSession THEN w
  ELSE [w EXCEPT !.transportMuted = [@ EXCEPT ![w.sessionRef] = m]]

----------------------------------------------------------------------------
\* Handlers of the widget.

\* connectToRealtime up to its first await. The guard reads the sessionStatus
\* of the render that created the closure.
connectToRealtime(w) ==
  IF w.rStatus # "DISCONNECTED" THEN w
  ELSE [w EXCEPT !.sessionStatus = "CONNECTING",
                 !.error = NoError,
                 !.phase = [@ EXCEPT ![NextAttempt] = "fetching"],
                 !.torn = FALSE]

\* disconnectFromRealtime: disconnect(), setError(null), setIsResponding(false).
disconnectFromRealtime(w) ==
  [hookDisconnect(w) EXCEPT !.error = NoError, !.isResponding = FALSE, !.torn = TRUE]

\* Mutant: the failure branch records the error and leaves the status alone.
connectFailed_StatusKept(w, i, message) ==
  [w EXCEPT !.error = message, !.phase = [@ EXCEPT ![i] = "failed"]]

\* The failure branches of connectToRealtime: setError, setSessionStatus.
connectFailed(w, i, message) ==
  [w EXCEPT !.error = message,
            !.sessionStatus = "DISCONNECTED",
            !.phase = [@ EXCEPT ![i] = "failed"]]

\* connectToRealtime after the credential fetch of attempt i completed.
fetchResolved(w, i, outcome) ==
  IF outcome.throws THEN connectFailed(w, i, "Failed to connect")
  ELSE IF Falsy(fetchEphemeralKey(outcome))
  THEN connectFailed(w, i, "Missing ephemeral key")
  ELSE hookConnect(w, i)

\* connectToRealtime after connect() of attempt i settled: the greeting on
\* success, the catch block on failure (the handle is gone).
handshakeResolved(w, i, ok) ==
  IF ok
  THEN [hookConnected(w, i) EXCEPT
          !.sent = triggerInitialGreeting(@, i, w.sessionRef)]
  ELSE [connectFailed(w, i, "Failed to connect") EXCEPT
          !.sessionRef = IF @ = i THEN NoSession ELSE @]

\* The message handler of the widget.
onMessage(w, m) ==
  IF m = "voicepulse.connect" THEN connectToRealtime(w)
  ELSE IF m = "voicepulse.disconnect" THEN disconnectFromRealtime(w)
  ELSE w

\* onClick of the status button.
onStatusClick(w) ==
  IF w.rStatus = "CONNECTED" THEN disconnectFromRealtime(w)
  ELSE IF w.rStatus = "DISCONNECTED" THEN connectToRealtime(w)
  ELSE w

\* toggleMute.
toggleMute(w) ==
  IF w.rStatus # "CONNECTED" THEN w ELSE [w EXCEPT !.isMuted = ~@]

\* The isMuted effect: the audio sink and the transport take isMuted.
muteEffect(w) ==
  [hookMute(w, w.isMuted) EXCEPT
     !.audioMuted = w.isMuted, !.audioVolume = SinkVolume(w.isMuted)]

\* The isResponding reset effect.
respondingEffect(w) ==
  IF w.sessionStatus # "CONNECTED" THEN [w EXCEPT !.isResponding = FALSE] ELSE w

\* React commits a render of the current state and runs the effects whose
\* dependencies changed; the closures of the handlers now read the new state.
render(w) ==
  LET a == IF w.rMuted # w.isMuted THEN muteEffect(w) ELSE w
      b == IF w.rStatus # w.sessionStatus THEN respondingEffect(a) ELSE a
  IN [b EXCEPT !.rStatus = w.sessionStatus, !.rMuted = w.isMuted]

----------------------------------------------------------------------------
\* The feedback supervisor: getNextResponseFromFeedbackSupervisor.execute,
\* fetchResponsesMessage and handleToolCalls.

\* Content parts of a message item; `text` is a sequence of characters.
OutputText(c) == [type |-> "output_text", text |-> <<c>>]
Refusal(c) == [type |-> "refusal", text |-> <<c>>]
Contents == {<<OutputText("a"), OutputText("b")>>, <<Refusal("x"), OutputText("c")>>}

\* Output items of a response. call_id is filled in when the response is
\* received: the endpoint gives every call its own id.
NoCall == 0
MessageItem(content) ==
  [type |-> "message", content |-> content, name |-> "", call_id |-> NoCall]
FunctionCall(name) ==
  [type |-> "function_call", content |-> <<>>, name |-> name, call_id |-> NoCall]
ReasoningItem ==
  [type |-> "reasoning", content |-> <<>>, name |-> "", call_id |-> NoCall]
ToolNames == {"categorizeFeedback", "saveFeedbackSummary", "lookupWeather"}
Items ==
  {MessageItem(c) : c \in Contents} \cup {FunctionCall(n) : n \in ToolNames}
    \cup {ReasoningItem}
RECURSIVE OutputsUpTo(_)
OutputsUpTo(n) ==
  IF n = 0 THEN {<<>>}
  ELSE OutputsUpTo(n - 1) \cup
       {Append(o, i) : o \in {u \in OutputsUpTo(n - 1) : Len(u) = n - 1}, i \in Items}

\* What POST /api/responses answers: a non-success status, or a completion.
HttpResponses == [ok : {FALSE}, output : {<<>>}] \cup [ok : {TRUE}, output : OutputsUpTo(MaxItems)]
NoResponse == [error |-> FALSE, output |-> <<>>]

\* The id the endpoint gives the k-th function call of the answer to request
\* number n.
CallId(n, k) == 10 * n + k
Stamp(output, n) ==
  [k \in 1..Len(output) |->
     IF output[k].type = "function_call"
     THEN [output[k] EXCEPT
             !.call_id = CallId(n, Len(SelectSeq(SubSeq(output, 1, k),
                                                 LAMBDA item : item.type = "function_call")))]
     ELSE output[k]]

\* fetchResponsesMessage: {error} for a non-success status, else the body.
fetchResponsesMessage(response, n) ==
  IF ~response.ok THEN [error |-> TRUE, output |-> <<>>]
  ELSE [error |-> FALSE, output |-> Stamp(response.output, n)]

\* Mutant: a name outside the dispatch table is answered with an error.
getToolResponse_UnknownFails(fName) ==
  CASE fName = "categorizeFeedback" -> "category"
    [] fName = "saveFeedbackSummary" -> "Feedback saved. Thank the user."
    [] OTHER -> "error: unknown tool"

\* getToolResponse.
getToolResponse(fName) ==
  CASE fName = "categorizeFeedback" -> "category"
    [] fName = "saveFeedbackSummary" -> "Feedback saved. Thank the user."
    [] OTHER -> "result: true"

\* The two entries handleToolCalls pushes for one call.
CallEntry(toolCall) ==
  [type |-> "function_call", call_id |-> toolCall.call_id, name |-> toolCall.name,
   output |-> "", content |-> <<>>]
OutputEntry(toolCall) ==
  [type |-> "function_call_output", call_id |-> toolCall.call_id, name |-> "",
   output |-> getToolResponse(toolCall.name), content |-> <<>>]

\* Mutant: the output entry is pushed before its call entry.
pushCall_OutputFirst(history, toolCall) ==
  history \o <<OutputEntry(toolCall), CallEntry(toolCall)>>

\* body.input.push(call entry, output entry).
pushCall(history, toolCall) ==
  history \o <<CallEntry(toolCall), OutputEntry(toolCall)>>

RECURSIVE pushCalls(_, _)
pushCalls(history, calls) ==
  IF calls = <<>> THEN history
  ELSE pushCalls(pushCall(history, Head(calls)), Tail(calls))

functionCalls(output) == SelectSeq(output, LAMBDA item : item.type = "function_call")
assistantMessages(output) == SelectSeq(output, LAMBDA item : item.type = "message")

RECURSIVE Join(_, _)
Join(texts, sep) ==
  IF texts = <<>> THEN <<>>
  ELSE IF Len(texts) = 1 THEN Head(texts)
  ELSE Head(texts) \o sep \o Join(Tail(texts), sep)

\* msg.content filtered to output_text, mapped to text, joined with "".
messageText(msg) ==
  LET parts == SelectSeq(msg.content, LAMBDA c : c.type = "output_text")
  IN Join([k \in 1..Len(parts) |-> parts[k].text], <<>>)

\* finalText: the texts of the message items joined with "\n".
finalText(output) ==
  LET msgs == assistantMessages(output)
  IN Join([k \in 1..Len(msgs) |-> messageText(msgs[k])], <<"\n">>)

\* details.context.history: the turns of the realtime conversation. A context
\* without history counts as the empty history.
RealtimeItem(type, itemId) == [type |-> type, itemId |-> itemId]
RealtimeHistories ==
  {<<>>,
   <<RealtimeItem("message", "u1"), RealtimeItem("function_call", "f1"),
     RealtimeItem("message", "a1")>>}
filteredLogs(history) == SelectSeq(history, LAMBDA log : log.type = "message")

SystemMessage ==
  [type |-> "message", call_id |-> NoCall, name |-> "system", output |-> "",
   content |-> <<>>]

\* Mutant: the user message is built from every turn of the history.
UserMessage_Unfiltered(history) ==
  [type |-> "message", call_id |-> NoCall, name |-> "user", output |-> "",
   content |-> history]

\* The user message: its content is built from the filtered history.
UserMessage(history) ==
  [type |-> "message", call_id |-> NoCall, name |-> "user", output |-> "",
   content |-> filteredLogs(history)]

NoReturn == [kind |-> "none", text |-> <<>>]
ErrorReturn == [kind |-> "error", text |-> <<"Something went wrong.">>]
TextReturn(text) == [kind |-> "nextResponse", text |-> text]

LoopInit ==
  /\ pc = "idle"
  /\ input = <<>>
  /\ requests = <<>>
  /\ executed = <<>>
  /\ currentResponse = NoResponse
  /\ result = NoReturn

\* execute up to its first await: the body is built and the first reasoning
\* request is issued.
Execute(history) ==
  /\ pc = "idle"
  /\ pc' = "awaiting"
  /\ input' = <<SystemMessage, UserMessage(history)>>
  /\ requests' = <<input'>>
  /\ UNCHANGED <<executed, currentResponse, result>>
  /\ UNCHANGED <<widgetVars, inbox, op, pageVars, toolVars>>

\* Mutant: a failed request is handled like an empty completion.
afterResponse_ErrorAsText(state, response) ==
  IF response.error THEN [state EXCEPT !.pc = "done", !.result = TextReturn(<<>>)]
  ELSE IF functionCalls(response.output) = <<>>
  THEN [state EXCEPT !.pc = "done", !.result = TextReturn(finalText(response.output))]
  ELSE [state EXCEPT
          !.executed = @ \o functionCalls(response.output),
          !.input = pushCalls(@, functionCalls(response.output)),
          !.requests = Append(@, pushCalls(state.input, functionCalls(response.output)))]

\* Mutant: handleToolCalls gives up with the generic error at its third
\* iteration.
afterResponse_Capped(state, response) ==
  IF response.error THEN [state EXCEPT !.pc = "done", !.result = ErrorReturn]
  ELSE IF functionCalls(response.output) = <<>>
  THEN [state EXCEPT !.pc = "done", !.result = TextReturn(finalText(response.output))]
  ELSE IF Len(state.requests) >= 2
  THEN [state EXCEPT !.pc = "done", !.result = ErrorReturn]
  ELSE [state EXCEPT
          !.executed = @ \o functionCalls(response.output),
          !.input = pushCalls(@, functionCalls(response.output)),
          !.requests = Append(@, pushCalls(state.input, functionCalls(response.output)))]

\* The code that runs when the reasoning request in flight is answered: the
\* error test of execute or of handleToolCalls, the return of the final text,
\* or the tool calls followed by the next request.
afterResponse(state, response) ==
  IF response.error THEN [state EXCEPT !.pc = "done", !.result = ErrorReturn]
  ELSE IF functionCalls(response.output) = <<>>
  THEN [state EXCEPT !.pc = "done", !.result = TextReturn(finalText(response.output))]
  ELSE [state EXCEPT
          !.executed = @ \o functionCalls(response.output),
          !.input = pushCalls(@, functionCalls(response.output)),
          !.requests = Append(@, pushCalls(state.input, functionCalls(response.output)))]

Loop ==
  [pc |-> pc, input |-> input, requests |-> requests, executed |-> executed,
   result |-> result]

\* The reasoning request in flight is answered. The endpoint stops asking for
\* tools at the latest when MaxRequests requests have been made, and asks for
\* MaxCalls calls in all.
ResponseArrives(response) ==
  /\ pc = "awaiting"
  /\ (response.ok /\ functionCalls(response.output) # <<>>) => Len(requests) < MaxRequests
  /\ response.ok => Len(executed) + Len(functionCalls(response.output)) <= MaxCalls
  /\ LET r == fetchResponsesMessage(response, Len(requests))
         after == afterResponse(Loop, r)
     IN /\ currentResponse' = r
        /\ pc' = after.pc
        /\ input' = after.input
        /\ requests' = after.requests
        /\ executed' = after.executed
        /\ result' = after.result
  /\ UNCHANGED <<widgetVars, inbox, op, pageVars, toolVars>>

LoopNext ==
  \/ \E history \in RealtimeHistories : Execute(history)
  \/ \E response \in HttpResponses : ResponseArrives(response)

----------------------------------------------------------------------------
\* The agent tools that call POST /api/mcp, and the proxy route behind it.

Undefined == "undefined"
NoTool == [module |-> "", name |-> "", sends |-> ""]

\* name: the tool's name; sends: the `tool` field of the body it posts.
AgentTools ==
  {[module |-> "feedbackSurvey/mcpTools", name |-> "fetch_questions",
    sends |-> "fetch_questions"],
   [module |-> "feedbackSurvey/mcpTools", name |-> "save_response",
    sends |-> "save_response"],
   [module |-> "feedbackSurvey/mcpTools", name |-> "get_all_responses",
    sends |-> "get_all_responses"],
   [module |-> "feedbackBot/mcpTools", name |-> "start_new_session",
    sends |-> "start_new_session"],
   [module |-> "feedbackBot/mcpTools", name |-> "fetch_feedback_questions",
    sends |-> "fetch_questions"],
   [module |-> "feedbackBot/mcpTools", name |-> "save_feedback_response",
    sends |-> "save_response"],
   [module |-> "feedbackBot/mcpTools", name |-> "get_all_feedback_responses",
    sends |-> "get_all_responses"]}

\* What the agent passes to execute: an object with or without sheet_name, or
\* no object at all. `rest` stands for the tool's other arguments.
NullInput == [isNull |-> TRUE, sheet_name |-> Undefined, rest |-> Undefined]
ToolInputs ==
  {NullInput} \cup [isNull : {FALSE}, sheet_name : {Undefined, "Tab2"}, rest : {"given"}]

\* JSON values. An object carries its `status` and `message` fields.
JsonNull == [kind |-> "null", status |-> Undefined, message |-> Undefined]
JsonObject(status, message) == [kind |-> "object", status |-> status, message |-> message]
NotJson == [kind |-> "not json", status |-> Undefined, message |-> Undefined]

\* Request bodies of POST /api/mcp.
NoParameters == [sheet_name |-> Undefined, rest |-> Undefined]
EmptyObject == [sheet_name |-> Undefined, rest |-> "{}"]
Body(tool, parameters) == [json |-> TRUE, tool |-> tool, parameters |-> parameters]
NoBody == [json |-> FALSE, tool |-> Undefined, parameters |-> NoParameters]

\* The body a tool posts: {tool, parameters: {..., sheet_name}} with
\* sheet_name = 'Sheet1' by default.
toolBody(tool, in) ==
  Body(tool.sends,
       [sheet_name |-> IF in.sheet_name = Undefined THEN "Sheet1" ELSE in.sheet_name,
        rest |-> in.rest])

\* Bodies other clients post: not JSON, no tool, an empty tool, tools that are
\* not in the endpoint map, a known tool without parameters.
ClientTools ==
  {Undefined, "", "nope", "constructor", "toString", "fetch_questions",
   "clear_all_responses", "update_sheet_id"}
ClientBodies ==
  {NoBody} \cup {Body(t, p) : t \in ClientTools,
                              p \in {NoParameters, [sheet_name |-> "Tab2", rest |-> "given"]}}

\* toolEndpoints, and the properties every object literal inherits.
toolEndpoints ==
  [t \in {"fetch_questions", "save_response", "get_all_responses",
          "clear_all_responses", "update_sheet_id"} |-> "/tools/" \o t]
ObjectPrototype == {"constructor", "toString", "valueOf", "hasOwnProperty"}
Inherited == "function () { [native code] }"

\* toolEndpoints[tool]: an own property, an inherited one, or undefined.
endpointOf(tool) ==
  IF tool \in DOMAIN toolEndpoints THEN toolEndpoints[tool]
  ELSE IF tool \in ObjectPrototype THEN Inherited
  ELSE Undefined

\* MCP_SERVER_URL: the default, or a configured base that ends in a slash.
ServerUrls == {"http://localhost:8085", "http://mcp.internal/"}
EndsInSlash(url) == url = "http://mcp.internal/"
IsPath(endpoint) == endpoint \in {toolEndpoints[t] : t \in DOMAIN toolEndpoints}

\* Whether `${MCP_SERVER_URL}${endpoint}` is a URL fetch accepts: text glued
\* to the port is not, text after the slash of a base is.
UrlParses(server, endpoint) == IsPath(endpoint) \/ EndsInSlash(server)

\* Responses of POST /api/mcp.
Respond(status, body) == [status |-> status, body |-> body]
ProxyError(message) ==
  [kind |-> "object", status |-> Undefined, message |-> message]
NoProxyResponse == Respond(0, JsonNull)
IsOk(status) == status >= 200 /\ status <= 299

\* What the route does with a request up to its upstream fetch: it answers at
\* once, or it forwards.
Forward(server, endpoint, parameters) ==
  [kind |-> "forward", server |-> server, endpoint |-> endpoint,
   parameters |-> parameters, response |-> NoProxyResponse]
Answer(response) ==
  [kind |-> "answer", server |-> "", endpoint |-> "", parameters |-> NoParameters,
   response |-> response]
IsTruthy(v) == v # Undefined /\ v # ""

\* POST of route.ts, lines 15-50 and the catch.
routePost(body, server) ==
  IF ~body.json THEN Answer(Respond(500, ProxyError("Unexpected token")))
  ELSE IF ~IsTruthy(body.tool)
  THEN Answer(Respond(400, ProxyError("Missing tool name")))
  ELSE IF ~IsTruthy(endpointOf(body.tool))
  THEN Answer(Respond(400, ProxyError("Unknown tool")))
  ELSE IF ~UrlParses(server, endpointOf(body.tool))
  THEN Answer(Respond(500, ProxyError("Failed to parse URL")))
  ELSE Forward(server, endpointOf(body.tool),
               IF body.parameters = NoParameters THEN EmptyObject ELSE body.parameters)

\* What the MCP server answers, as the route's fetch sees it.
UpstreamBodies ==
  {JsonObject("ok", "saved"), JsonObject("error", "Sheet not found"), JsonNull, NotJson}
UpstreamOutcomes ==
  [thrown : {TRUE}, ok : {FALSE}, body : {NotJson}]
    \cup [thrown : {FALSE}, ok : {FALSE}, body : {NotJson}]
    \cup [thrown : {FALSE}, ok : {TRUE}, body : UpstreamBodies]

\* POST of route.ts, lines 52-57 and the catch.
routeAfterFetch(outcome) ==
  IF outcome.thrown THEN Respond(500, ProxyError("fetch failed"))
  ELSE IF ~outcome.ok THEN Respond(500, ProxyError("MCP server error"))
  ELSE IF outcome.body = NotJson THEN Respond(500, ProxyError("Unexpected token"))
  ELSE Respond(200, outcome.body)

\* What execute returns.
NoToolResult == [kind |-> "none", success |-> FALSE, error |-> Undefined, data |-> JsonNull]
Failure(message) == [kind |-> "returned", success |-> FALSE, error |-> message, data |-> JsonNull]
Success(body) == [kind |-> "returned", success |-> TRUE, error |-> Undefined, data |-> body]

\* What the tool's fetch of /api/mcp gives: a rejection, or a response.
NetworkError == [rejected |-> TRUE, response |-> NoProxyResponse]
Arrived(response) == [rejected |-> FALSE, response |-> response]

\* Mutant: a body with status "error" is passed on as a success.
executeAfterFetch_ErrorStatusIgnored(fetched) ==
  IF fetched.rejected THEN Failure("Failed to fetch")
  ELSE IF ~IsOk(fetched.response.status) THEN Failure("MCP proxy error")
  ELSE IF fetched.response.body.kind = "null"
  THEN Failure("Cannot read properties of null")
  ELSE Success(fetched.response.body)

\* execute after `await fetch(MCP_PROXY_URL, ...)`, with its catch.
executeAfterFetch(fetched) ==
  IF fetched.rejected THEN Failure("Failed to fetch")
  ELSE IF ~IsOk(fetched.response.status) THEN Failure("MCP proxy error")
  ELSE IF fetched.response.body.kind = "null"
  THEN Failure("Cannot read properties of null")
  ELSE IF fetched.response.body.status = "error"
  THEN Failure(fetched.response.body.message)
  ELSE Success(fetched.response.body)

ToolInit ==
  /\ tpc = "idle"
  /\ caller = NoTool
  /\ request = NoBody
  /\ upstreamCalls = <<>>
  /\ proxyResponse = NoProxyResponse
  /\ toolResult = NoToolResult

NotTool == UNCHANGED <<widgetVars, inbox, op, pageVars, loopVars, surveyVars>>

\* An agent tool's execute up to its fetch. Destructuring an input that is
\* not an object throws inside the try.
ToolExecute(tool, in) ==
  /\ tpc = "idle"
  /\ caller' = tool
  /\ IF in.isNull
     THEN /\ tpc' = "returned"
          /\ toolResult' = Failure("Cannot destructure")
          /\ UNCHANGED request
     ELSE /\ tpc' = "toProxy"
          /\ request' = toolBody(tool, in)
          /\ UNCHANGED toolResult
  /\ UNCHANGED <<upstreamCalls, proxyResponse>>
  /\ NotTool

\* Another client posts to /api/mcp.
ClientPost(body) ==
  /\ tpc = "idle"
  /\ tpc' = "toProxy"
  /\ request' = body
  /\ UNCHANGED <<caller, upstreamCalls, proxyResponse, toolResult>>
  /\ NotTool

\* The tool's request does not reach the route.
ProxyUnreachable ==
  /\ tpc = "toProxy"
  /\ caller # NoTool
  /\ tpc' = "returned"
  /\ toolResult' = executeAfterFetch(NetworkError)
  /\ UNCHANGED <<caller, request, upstreamCalls, proxyResponse>>
  /\ NotTool

\* The route handles the request up to its upstream fetch.
RoutePost(server) ==
  /\ tpc = "toProxy"
  /\ LET step == routePost(request, server)
     IN IF step.kind = "forward"
        THEN /\ tpc' = "upstream"
             /\ upstreamCalls' = Append(upstreamCalls, step)
             /\ UNCHANGED proxyResponse
        ELSE /\ tpc' = "toCaller"
             /\ proxyResponse' = step.response
             /\ UNCHANGED upstreamCalls
  /\ UNCHANGED <<caller, request, toolResult>>
  /\ NotTool

\* The MCP server answers, or the route's fetch fails.
UpstreamAnswers(outcome) ==
  /\ tpc = "upstream"
  /\ tpc' = "toCaller"
  /\ proxyResponse' = routeAfterFetch(outcome)
  /\ UNCHANGED <<caller, request, upstreamCalls, toolResult>>
  /\ NotTool

\* The route's response reaches the caller; a tool goes on after its fetch.
ResponseReturns ==
  /\ tpc = "toCaller"
  /\ tpc' = "returned"
  /\ toolResult' = IF caller = NoTool THEN toolResult
                   ELSE executeAfterFetch(Arrived(proxyResponse))
  /\ UNCHANGED <<caller, request, upstreamCalls, proxyResponse>>
  /\ NotTool

ToolNext ==
  \/ \E tool \in AgentTools, in \in ToolInputs : ToolExecute(tool, in)
  \/ \E body \in ClientBodies : ClientPost(body)
  \/ ProxyUnreachable
  \/ \E server \in ServerUrls : RoutePost(server)
  \/ \E outcome \in UpstreamOutcomes : UpstreamAnswers(outcome)
  \/ ResponseReturns

----------------------------------------------------------------------------

\* saveSurveyResponse and the survey configuration.

\* Texts are sequences of characters.
Digits == {"0", "1"}
SurveyAlphabet == Digits \cup {"-", " ", "y", "Y", "e", "s", "n", "o", "x"}
RECURSIVE ResponsesUpTo(_)
ResponsesUpTo(n) ==
  IF n = 0 THEN {<<>>}
  ELSE ResponsesUpTo(n - 1) \cup
       {Append(t, c) : t \in {u \in ResponsesUpTo(n - 1) : Len(u) = n - 1},
                       c \in SurveyAlphabet}
Responses == ResponsesUpTo(MaxResponse)

\* surveyQuestions, followed by two MULTIPLE_CHOICE questions of a customised
\* configuration: one with an options array, one without.
NoOptions == <<<<"undefined">>>>
Question(id, type, options) == [id |-> id, type |-> type, options |-> options]
surveyQuestions ==
  <<Question("q1", "RATING", NoOptions),
    Question("q2", "OPEN_ENDED", NoOptions),
    Question("q3", "OPEN_ENDED", NoOptions),
    Question("q4", "YES_NO", NoOptions),
    Question("q5", "OPEN_ENDED", NoOptions),
    Question("q6", "MULTIPLE_CHOICE", <<<<"Y", "e", "s">>, <<"n", "o">>, <<"s", "o">>>>),
    Question("q7", "MULTIPLE_CHOICE", NoOptions)>>
NoQuestion == Question("", "", NoOptions)
QuestionIds == {surveyQuestions[k].id : k \in 1..Len(surveyQuestions)} \cup {"q9"}

\* surveyQuestions.find((q) => q.id === questionId)
findQuestion(questionId) ==
  LET hits == SelectSeq(surveyQuestions, LAMBDA q : q.id = questionId)
  IN IF hits = <<>> THEN NoQuestion ELSE Head(hits)

\* String.prototype.toLowerCase and trim.
LowerChar(c) == IF c = "Y" THEN "y" ELSE c
toLowerCase(text) == [k \in 1..Len(text) |-> LowerChar(text[k])]
RECURSIVE trimStart(_)
trimStart(text) ==
  IF text # <<>> /\ Head(text) = " " THEN trimStart(Tail(text)) ELSE text
RECURSIVE trimEnd(_)
trimEnd(text) ==
  IF text # <<>> /\ text[Len(text)] = " " THEN trimEnd(SubSeq(text, 1, Len(text) - 1))
  ELSE text
trim(text) == trimEnd(trimStart(text))

\* parseInt(text, 10): leading white space, an optional sign, then the
\* longest run of digits; NaN when there is no digit.
NaN == [nan |-> TRUE, value |-> 0]
Number(n) == [nan |-> FALSE, value |-> n]
RECURSIVE DigitRun(_)
DigitRun(text) ==
  IF text # <<>> /\ Head(text) \in Digits THEN <<Head(text)>> \o DigitRun(Tail(text))
  ELSE <<>>
DigitValue(c) == IF c = "1" THEN 1 ELSE 0
RECURSIVE Decimal(_)
Decimal(digits) ==
  IF digits = <<>> THEN 0
  ELSE 10 * Decimal(SubSeq(digits, 1, Len(digits) - 1)) + DigitValue(digits[Len(digits)])
parseInt(text) ==
  LET t == trimStart(text)
      negative == t # <<>> /\ Head(t) = "-"
      run == DigitRun(IF negative THEN Tail(t) ELSE t)
  IN IF run = <<>> THEN NaN
     ELSE Number(IF negative THEN 0 - Decimal(run) ELSE Decimal(run))

\* Values of validatedResponse: the response text, or the rating.
TextValue(text) == [type |-> "string", text |-> text, number |-> 0]
NumberValue(n) == [type |-> "number", text |-> <<>>, number |-> n]
Valid(value) == [ok |-> TRUE, value |-> value, error |-> ""]
Invalid(message) == [ok |-> FALSE, value |-> TextValue(<<>>), error |-> message]
YesNoWords == {<<"y", "e", "s">>, <<"n", "o">>, <<"y">>, <<"n">>}

\* Mutant: a rating above 10 is accepted.
validate_NoUpperBound(question, response) ==
  IF question = NoQuestion THEN Invalid("Question ID not found in survey configuration")
  ELSE IF question.type = "RATING"
  THEN LET rating == parseInt(response)
       IN IF rating.nan \/ rating.value < 1
          THEN Invalid("Rating must be a number between 1 and 10")
          ELSE Valid(NumberValue(rating.value))
  ELSE IF question.type = "YES_NO"
  THEN LET normalized == trim(toLowerCase(response))
       IN IF normalized \notin YesNoWords THEN Invalid("Response must be yes or no")
          ELSE Valid(TextValue(IF Head(normalized) = "y" THEN <<"y", "e", "s">>
                               ELSE <<"n", "o">>))
  ELSE IF question.type = "MULTIPLE_CHOICE" /\ question.options # NoOptions
  THEN IF \E k \in 1..Len(question.options) :
            toLowerCase(question.options[k]) = toLowerCase(response)
       THEN Valid(TextValue(response))
       ELSE Invalid("Response must be one of the options")
  ELSE Valid(TextValue(response))

\* execute of saveSurveyResponse up to its fetch: the question is looked up
\* and the response is validated by the question's type.
validate(question, response) ==
  IF question = NoQuestion THEN Invalid("Question ID not found in survey configuration")
  ELSE IF question.type = "RATING"
  THEN LET rating == parseInt(response)
       IN IF rating.nan \/ rating.value < 1 \/ rating.value > 10
          THEN Invalid("Rating must be a number between 1 and 10")
          ELSE Valid(NumberValue(rating.value))
  ELSE IF question.type = "YES_NO"
  THEN LET normalized == trim(toLowerCase(response))
       IN IF normalized \notin YesNoWords THEN Invalid("Response must be yes or no")
          ELSE Valid(TextValue(IF Head(normalized) = "y" THEN <<"y", "e", "s">>
                               ELSE <<"n", "o">>))
  ELSE IF question.type = "MULTIPLE_CHOICE" /\ question.options # NoOptions
  THEN IF \E k \in 1..Len(question.options) :
            toLowerCase(question.options[k]) = toLowerCase(response)
       THEN Valid(TextValue(response))
       ELSE Invalid("Response must be one of the options")
  ELSE Valid(TextValue(response))

SurveyBody(questionId, value) ==
  [action |-> "saveResponse", questionId |-> questionId, response |-> value]
NoSurveyInput == [questionId |-> "", response |-> <<>>]
NoSurveyResult ==
  [kind |-> "none", success |-> FALSE, error |-> "", response |-> TextValue(<<>>)]
SurveyFailure(message) ==
  [kind |-> "returned", success |-> FALSE, error |-> message, response |-> TextValue(<<>>)]
SurveySuccess(value) ==
  [kind |-> "returned", success |-> TRUE, error |-> "", response |-> value]

SurveyInit ==
  /\ spc = "idle"
  /\ surveyInput = NoSurveyInput
  /\ surveyRequests = <<>>
  /\ surveyResult = NoSurveyResult

NotSurvey == UNCHANGED <<widgetVars, inbox, op, pageVars, loopVars, mcpVars>>

\* execute up to its first await or its early return.
SaveSurveyResponse(questionId, response) ==
  /\ spc = "idle"
  /\ surveyInput' = [questionId |-> questionId, response |-> response]
  /\ LET checked == validate(findQuestion(questionId), response)
     IN IF checked.ok
        THEN /\ spc' = "awaiting"
             /\ surveyRequests' = Append(surveyRequests, SurveyBody(questionId, checked.value))
             /\ UNCHANGED surveyResult
        ELSE /\ spc' = "returned"
             /\ surveyResult' = SurveyFailure(checked.error)
             /\ UNCHANGED surveyRequests
  /\ NotSurvey

\* POST /api/survey answers: execute stores nothing itself and returns what
\* it sent, or the failure its catch builds.
SurveyAnswers(ok) ==
  /\ spc = "awaiting"
  /\ spc' = "returned"
  /\ surveyResult' = IF ok THEN SurveySuccess(surveyRequests[Len(surveyRequests)].response)
                     ELSE SurveyFailure("Failed to save response to server")
  /\ UNCHANGED <<surveyInput, surveyRequests>>
  /\ NotSurvey

SurveyNext ==
  \/ /\ spc = "idle"
     /\ \E questionId \in QuestionIds, response \in Responses :
          SaveSurveyResponse(questionId, response)
  \/ \E ok \in BOOLEAN : SurveyAnswers(ok)

----------------------------------------------------------------------------

\* The embed script (voicepulse-widget.js).

\* Text of an attribute: a sequence of characters. A run of unreserved
\* characters is one element; Absent is the value of a missing attribute.
Unreserved == {"a"}
Reserved == {"&", "%"}
Alphabet == Unreserved \cup Reserved
Absent == <<"undefined">>
RECURSIVE TextsUpTo(_)
TextsUpTo(n) ==
  IF n = 0 THEN {<<>>}
  ELSE TextsUpTo(n - 1) \cup
       {Append(t, c) : t \in {u \in TextsUpTo(n - 1) : Len(u) = n - 1}, c \in Alphabet}
Texts == TextsUpTo(MaxText) \cup {Absent}

\* The script element: src as the URL parser sees it, and its data attributes.
ScriptSrcs ==
  {[parses |-> FALSE, origin |-> ""], [parses |-> TRUE, origin |-> "https://cdn.example"]}
Hosts == {Null, "", "https://app.example"}
Positions == {Null, "", "bottom-right", "bottom-left", "top-left"}
InlineFlags == {Null, "true", "false"}
Dataset(src, h, config, name, t, pos, inline) ==
  [src |-> src, host |-> h, agentConfig |-> config, agentName |-> name,
   title |-> t, position |-> pos, inline |-> inline]

\* The script tag of the README and a second tag with other attributes.
ReadmeScript ==
  [src |-> [parses |-> TRUE, origin |-> "https://cdn.example"],
   host |-> "https://app.example", agentConfig |-> <<"a">>, agentName |-> Absent,
   title |-> <<"a">>, position |-> "bottom-right", inline |-> Null]
OtherScript ==
  [ReadmeScript EXCEPT !.host = Null, !.agentName = <<"a">>, !.title = <<"&">>,
                       !.position = "bottom-left", !.inline = "true"]
SampleDatasets == {ReadmeScript, OtherScript}

\* JavaScript truthiness of an attribute text, and `text || fallback`.
Truthy(text) == text # Absent /\ text # <<>>
OrElse(text, fallback) == IF Truthy(text) THEN text ELSE fallback

\* new URL(script.src).origin, "" when the constructor throws.
scriptOrigin(src) == IF src.parses THEN src.origin ELSE ""

\* var host = dataset.host; if (!host) host = origin of script.src or "".
host(dataset) ==
  IF dataset.host # Null /\ dataset.host # "" THEN dataset.host
  ELSE scriptOrigin(dataset.src)

agentConfig(dataset) == OrElse(dataset.agentConfig, <<"chatSupervisor">>)
agentName(dataset) == OrElse(dataset.agentName, <<>>)
title(dataset) == OrElse(dataset.title, <<"Voice", " ", "Assistant">>)
position(dataset) ==
  IF dataset.position # Null /\ dataset.position # "" THEN dataset.position
  ELSE "bottom-right"

\* encodeURIComponent: unreserved characters pass, every other character
\* becomes "%" and its two hex digits.
HexOf(c) ==
  CASE c = "&" -> "26" [] c = "%" -> "25" [] c = " " -> "20" [] c = "=" -> "3D"
    [] OTHER -> "3F"
RECURSIVE encodeURIComponent(_)
encodeURIComponent(text) ==
  IF text = <<>> THEN <<>>
  ELSE (IF Head(text) \in {"&", "%", " ", "=", "?"}
        THEN <<"%", HexOf(Head(text))>> ELSE <<Head(text)>>)
       \o encodeURIComponent(Tail(text))

\* Mutant: the agentName parameter is appended whether or not a name was given.
widgetUrl_AlwaysAgentName(dataset) ==
  <<host(dataset), "/widget", "?", "agentConfig", "=">>
    \o encodeURIComponent(agentConfig(dataset))
    \o <<"&", "title", "=">> \o encodeURIComponent(title(dataset))
    \o <<"&", "agentName", "=">> \o encodeURIComponent(agentName(dataset))

\* iframe.src: its first element is the host, the rest the path and the query.
widgetUrl(dataset) ==
  <<host(dataset), "/widget", "?", "agentConfig", "=">>
    \o encodeURIComponent(agentConfig(dataset))
    \o <<"&", "title", "=">> \o encodeURIComponent(title(dataset))
    \o (IF Truthy(agentName(dataset))
        THEN <<"&", "agentName", "=">> \o encodeURIComponent(agentName(dataset))
        ELSE <<>>)

\* container.className.
posClass(dataset) ==
  IF position(dataset) = "bottom-left" THEN "vp-bottom-left" ELSE "vp-bottom-right"

\* The position the style sheet gives #voicepulse-widget.
containerPosition(dataset) == "fixed"

\* What the script has left in the page: the elements with the container id,
\* the nodes created and listeners registered so far, and of the installed
\* widget the iframe's src, the container's class and CSS position, and the
\* attributes of the script tag that installed it.
NoDom ==
  [containers |-> 0, created |-> 0, listeners |-> 0, src |-> <<>>,
   className |-> "", position |-> "static", dataset |-> ReadmeScript]

\* Mutant: the script installs without looking for an existing container.
install_Unguarded(d, dataset) ==
  [containers |-> d.containers + 1, created |-> d.created + 6,
   listeners |-> d.listeners + 2, src |-> widgetUrl(dataset),
   className |-> posClass(dataset), position |-> containerPosition(dataset),
   dataset |-> dataset]

\* The body of the script from the containerId test on: six createElement
\* calls (container, style, launcher, panel, header, iframe) and two
\* addEventListener calls, or nothing when the container exists.
install(d, dataset) ==
  IF d.containers > 0 THEN d
  ELSE [containers |-> d.containers + 1, created |-> d.created + 6,
        listeners |-> d.listeners + 2, src |-> widgetUrl(dataset),
        className |-> posClass(dataset), position |-> containerPosition(dataset),
        dataset |-> dataset]

\* The panel and the frame's message queue, as the click handlers see them;
\* `escaped` is whether an exception left the handler.
Panel == [open |-> panelOpen, box |-> inbox, escaped |-> FALSE]

\* Mutant: postMessage is called outside try/catch.
postMessage_Uncaught(p, window, m) ==
  IF window = "window" THEN [p EXCEPT !.box = Append(@, m)]
  ELSE IF window = "throws" THEN [p EXCEPT !.escaped = TRUE]
  ELSE p

\* iframe.contentWindow && iframe.contentWindow.postMessage(m, "*") inside
\* try/catch: the message is queued for the frame when the window is there
\* and postMessage does not throw; otherwise nothing happens.
postMessage(p, window, m) ==
  IF window = "window" THEN [p EXCEPT !.box = Append(@, m)] ELSE p

openPanel(p) == [p EXCEPT !.open = TRUE]

closePanel(p, window) ==
  postMessage([p EXCEPT !.open = FALSE], window, "voicepulse.disconnect")

\* Mutant: the launcher opens the panel and never closes it.
launcherClick_OpenOnly(p, window) ==
  postMessage(openPanel(p), window, "voicepulse.connect")

\* The click listener of the launcher.
launcherClick(p, window) ==
  IF p.open THEN closePanel(p, window)
  ELSE postMessage(openPanel(p), window, "voicepulse.connect")

Installed == dom.containers > 0

EmbedInit ==
  /\ dom = NoDom
  /\ panelOpen = FALSE
  /\ contentWindow = "null"
  /\ runs = 0
  /\ clicks = 0

\* The page executes the script; `found` is whether the script element was
\* located (document.currentScript or the search by src).
RunScript(found, dataset) ==
  /\ runs < MaxRuns
  /\ runs' = runs + 1
  /\ dom' = IF found THEN install(dom, dataset) ELSE dom
  /\ op' = Ran(IF found THEN "script.run" ELSE "script.notag")
  /\ Put(Cur)
  /\ UNCHANGED <<inbox, panelOpen, contentWindow, clicks>>

\* A click on the launcher.
LauncherClick ==
  /\ Installed
  /\ clicks < MaxClicks
  /\ clicks' = clicks + 1
  /\ panelOpen' = launcherClick(Panel, contentWindow).open
  /\ inbox' = launcherClick(Panel, contentWindow).box
  /\ op' = Ran(IF launcherClick(Panel, contentWindow).escaped
               THEN "launcher.uncaught" ELSE "launcher.click")
  /\ Put(Cur)
  /\ UNCHANGED <<dom, contentWindow, runs>>

\* A click on the close control of the panel header.
CloseClick ==
  /\ Installed
  /\ clicks < MaxClicks
  /\ clicks' = clicks + 1
  /\ panelOpen' = closePanel(Panel, contentWindow).open
  /\ inbox' = closePanel(Panel, contentWindow).box
  /\ op' = Ran(IF closePanel(Panel, contentWindow).escaped
               THEN "close.uncaught" ELSE "close.click")
  /\ Put(Cur)
  /\ UNCHANGED <<dom, contentWindow, runs>>

\* The frame's window becomes available, unavailable, or starts to reject
\* postMessage.
FrameChange(window) ==
  /\ Installed
  /\ window # contentWindow
  /\ contentWindow' = window
  /\ op' = Ran("frame")
  /\ Put(Cur)
  /\ UNCHANGED <<inbox, dom, panelOpen, runs, clicks>>

EmbedNext ==
  \/ \E found \in BOOLEAN, dataset \in SampleDatasets : RunScript(found, dataset)
  \/ LauncherClick
  \/ CloseClick
  \/ \E window \in {"null", "window", "throws"} : FrameChange(window)

\* The widget as it is first rendered.
WidgetInit ==
  /\ sessionStatus = "DISCONNECTED"
  /\ error = NoError
  /\ isMuted = FALSE
  /\ isResponding = FALSE
  /\ rStatus = "DISCONNECTED"
  /\ rMuted = FALSE
  /\ audioMuted = FALSE
  /\ audioVolume = 1
  /\ phase = [i \in Attempts |-> "none"]
  /\ sessionRef = NoSession
  /\ transportMuted = [i \in Attempts |-> FALSE]
  /\ sent = <<>>
  /\ inbox = <<>>
  /\ op = Ran("init")
  /\ torn = FALSE

\* A page whose script has not run, the widget's first render, and no
\* supervisor invocation.
Init == WidgetInit /\ EmbedInit /\ LoopInit /\ ToolInit /\ SurveyInit

\* The embed script on a page: executions, clicks and the frame's window.
EmbedSpec == Init /\ [][EmbedNext]_vars

\* One execution of the script for every script tag.
ConfigNext ==
  /\ ~Installed
  /\ \E src \in ScriptSrcs, h \in Hosts, config \in Texts, name \in Texts, t \in Texts,
        pos \in Positions, inline \in InlineFlags :
       RunScript(TRUE, Dataset(src, h, config, name, t, pos, inline))
ConfigSpec == Init /\ [][ConfigNext]_vars

\* One invocation of the supervisor tool.
LoopSpec == Init /\ [][LoopNext]_vars

\* One call of an agent tool, or one request of another client, through the
\* proxy route.
ToolSpec == Init /\ [][ToolNext]_vars

\* One call of saveSurveyResponse.
SurveySpec == Init /\ [][SurveyNext]_vars

----------------------------------------------------------------------------
\* Some frame posts a message to the widget's window.
PostMessage(m) ==
  /\ Len(inbox) < MaxInbox
  /\ inbox' = Append(inbox, m)
  /\ op' = Ran("post")
  /\ Set(Cur)

\* The registered message handler runs for the oldest queued message. Its
\* state updates are rendered later (Render).
OnMessage ==
  /\ inbox # <<>>
  /\ (Head(inbox) = "voicepulse.connect" /\ rStatus = "DISCONNECTED")
       => NextAttempt \in Attempts
  /\ inbox' = Tail(inbox)
  /\ op' = Ran(CASE Head(inbox) = "voicepulse.connect" -> "msg.connect"
                 [] Head(inbox) = "voicepulse.disconnect" -> "msg.disconnect"
                 [] OTHER -> "msg.other")
  /\ Set(onMessage(Cur, Head(inbox)))

\* A click on the status button, which is disabled while the rendered status
\* is CONNECTING. React renders the updates of a click before the next event.
StatusButtonClick ==
  /\ rStatus # "CONNECTING"
  /\ rStatus = "DISCONNECTED" => NextAttempt \in Attempts
  /\ op' = Ran(IF rStatus = "CONNECTED" THEN "click.disconnect" ELSE "click.connect")
  /\ Set(render(onStatusClick(Cur)))
  /\ UNCHANGED inbox

\* A click on the microphone button, which is disabled unless the rendered
\* status is CONNECTED.
ToggleMute ==
  /\ rStatus = "CONNECTED"
  /\ op' = Ran("click.mute")
  /\ Set(render(toggleMute(Cur)))
  /\ UNCHANGED inbox

\* React has rendered every state update made so far. A render is scheduled
\* as soon as a handler updates the state and runs before any network
\* round trip started by that handler, or pending at that time, completes;
\* only events already queued (messages, clicks) can run before it.
Rendered == rStatus = sessionStatus /\ rMuted = isMuted

\* The credential fetch of attempt i completes.
FetchResolve(i, outcome) ==
  /\ Rendered
  /\ phase[i] = "fetching"
  /\ op' = RanWith(IF outcome.throws THEN "fetch.catch"
                   ELSE IF Falsy(fetchEphemeralKey(outcome)) THEN "fetch.nokey"
                   ELSE "fetch.connect", outcome)
  /\ Set(fetchResolved(Cur, i, outcome))
  /\ UNCHANGED inbox

\* connect() of attempt i settles. A handshake whose handle was destroyed
\* meanwhile can only fail.
HandshakeResolve(i, ok) ==
  /\ Rendered
  /\ \/ phase[i] = "opening"
     \/ phase[i] = "aborted" /\ ~ok
  /\ op' = IF ok THEN RanWith("handshake.ok", NoResult)
           ELSE RanWith("handshake.catch", Thrown)
  /\ Set(handshakeResolved(Cur, i, ok))
  /\ UNCHANGED inbox

\* An open transport delivers an event to onTransportEvent. An event that
\* leaves isResponding as it is changes nothing and is left out.
TransportEvent(i, type) ==
  /\ Rendered
  /\ phase[i] = "open"
  /\ onTransportEvent(type, isResponding) # isResponding
  /\ op' = Ran("event")
  /\ Set([Cur EXCEPT !.isResponding = onTransportEvent(type, @)])
  /\ UNCHANGED inbox

\* React renders the state updates made outside click handlers.
Render ==
  /\ ~Rendered
  /\ op' = Ran("render")
  /\ Set(render(Cur))
  /\ UNCHANGED inbox

Next ==
  \/ \E m \in MessageTypes : PostMessage(m)
  \/ OnMessage
  \/ StatusButtonClick
  \/ ToggleMute
  \/ \E i \in Attempts, o \in FetchOutcomes : FetchResolve(i, o)
  \/ \E i \in Attempts, ok \in BOOLEAN : HandshakeResolve(i, ok)
  \/ \E i \in Attempts, t \in DeliveredEventTypes : TransportEvent(i, t)
  \/ Render

Spec == Init /\ [][Next]_vars

TypeOK ==
  /\ sessionStatus \in Statuses
  /\ rStatus \in Statuses
  /\ error \in Errors
  /\ isMuted \in BOOLEAN /\ isResponding \in BOOLEAN /\ rMuted \in BOOLEAN
  /\ audioMuted \in BOOLEAN /\ audioVolume \in {0, 1}
  /\ phase \in [Attempts -> Phases]
  /\ sessionRef \in Attempts \cup {NoSession}
  /\ Len(inbox) <= MaxInbox
  /\ torn \in BOOLEAN

----------------------------------------------------------------------------
\* The hosted widget reads its parameters back from the URL
\* (useSearchParams): the query is split at "&", each piece at its first "=",
\* and the value is percent-decoded.

CharOf(hex) ==
  CASE hex = "26" -> "&" [] hex = "25" -> "%" [] hex = "20" -> " " [] hex = "3D" -> "="
    [] OTHER -> "?"

RECURSIVE decodeURIComponent(_)
decodeURIComponent(text) ==
  IF text = <<>> THEN <<>>
  ELSE IF Head(text) = "%" /\ Len(text) >= 2
  THEN <<CharOf(text[2])>> \o decodeURIComponent(SubSeq(text, 3, Len(text)))
  ELSE <<Head(text)>> \o decodeURIComponent(Tail(text))

\* The pieces of a text between occurrences of a separator.
RECURSIVE SplitAt(_, _)
SplitAt(text, sep) ==
  IF \A k \in 1..Len(text) : text[k] # sep THEN <<text>>
  ELSE LET k == CHOOSE j \in 1..Len(text) :
                  text[j] = sep /\ \A h \in 1..(j - 1) : text[h] # sep
       IN <<SubSeq(text, 1, k - 1)>> \o SplitAt(SubSeq(text, k + 1, Len(text)), sep)

\* One key=value piece of the query.
Param(piece) ==
  IF Len(piece) >= 2 /\ piece[2] = "="
  THEN [key |-> piece[1], value |-> decodeURIComponent(SubSeq(piece, 3, Len(piece)))]
  ELSE [key |-> "", value |-> piece]

\* The parameters of a URL whose first three elements are host, path and "?".
searchParams(url) ==
  LET pieces == SplitAt(SubSeq(url, 4, Len(url)), "&")
  IN [k \in 1..Len(pieces) |-> Param(pieces[k])]

----------------------------------------------------------------------------
\* The embed script and the hosted widget together: the script has run once
\* with the README's tag, the frame has loaded, and the visitor clicks the
\* launcher and the close control; /api/session answers with a key and every
\* transport handshake whose handle still exists succeeds.

PageInit ==
  /\ WidgetInit
  /\ dom = install(NoDom, ReadmeScript)
  /\ panelOpen = FALSE
  /\ contentWindow = "window"
  /\ runs = 1
  /\ clicks = 0
  /\ LoopInit
  /\ ToolInit
  /\ SurveyInit

KeyBody == [throws |-> FALSE, value |-> "ek", client_secret_value |-> Null]

\* The credential fetch of attempt i answers with a key. A message posted
\* before a network call settles is delivered before it.
KeyArrives(i) == inbox = <<>> /\ FetchResolve(i, KeyBody)

\* connect() of attempt i settles: it succeeds unless a disconnect destroyed
\* the handle meanwhile.
HandshakeSettles(i) == inbox = <<>> /\ HandshakeResolve(i, phase[i] = "opening")

PageNext ==
  \/ LauncherClick
  \/ CloseClick
  \/ OnMessage
  \/ \E i \in Attempts : KeyArrives(i)
  \/ \E i \in Attempts : HandshakeSettles(i)
  \/ Render

\* The browser delivers every queued message, React renders every update and
\* every network call settles.
PageFairness ==
  /\ WF_vars(OnMessage)
  /\ WF_vars(Render)
  /\ \A i \in Attempts : WF_vars(KeyArrives(i)) /\ WF_vars(HandshakeSettles(i))

PageSpec == PageInit /\ [][PageNext]_vars /\ PageFairness

----------------------------------------------------------------------------
\* Properties.

LiveHandles == {i \in Attempts : phase[i] \in {"opening", "open"}}
Succeeded == {i \in Attempts : phase[i] \in {"open", "closed"}}
AllowedTransitions ==
  {<<"DISCONNECTED", "CONNECTING">>, <<"CONNECTING", "CONNECTED">>,
   <<"CONNECTING", "DISCONNECTED">>, <<"CONNECTED", "DISCONNECTED">>}

\* C1: a connect-intent (voicepulse.connect message or status-button click)
\* handled while sessionStatus is CONNECTING or CONNECTED changes neither the
\* status nor the error nor any handle, and starts no credential fetch or
\* transport connect.
C1_ConnectIntentIgnoredUnlessDisconnected ==
  [][(op'.name \in ConnectIntents /\ sessionStatus \in {"CONNECTING", "CONNECTED"})
       => UNCHANGED <<sessionStatus, error, phase, sessionRef>>]_vars

\* C2: sessionStatus only takes the four transitions of the state machine, and
\* it leaves DISCONNECTED only in a step that accepts a connect-intent.
C2_StatusTransitions ==
  [][/\ sessionStatus' # sessionStatus
          => <<sessionStatus, sessionStatus'>> \in AllowedTransitions
     /\ (sessionStatus = "DISCONNECTED" /\ sessionStatus' # "DISCONNECTED")
          => op'.name \in ConnectIntents]_vars

\* C3: at most one ConnectionHandle is opening or open at any time.
C3_AtMostOneHandle == Cardinality(LiveHandles) <= 1

\* C4: a disconnect-intent leaves sessionStatus DISCONNECTED and isResponding
\* false, and the status stays DISCONNECTED until a connect-intent is accepted.
C4_DisconnectHolds ==
  /\ op.name \in DisconnectIntents => (sessionStatus = "DISCONNECTED" /\ ~isResponding)
  /\ torn => sessionStatus = "DISCONNECTED"

\* C5: after a disconnect-intent and until a connect-intent is accepted, no
\* result of a call that was in flight opens a session, sets the status to
\* CONNECTED or sends the greeting.
C5_LateResultDiscarded ==
  [][torn => /\ sent' = sent
             /\ sessionStatus' # "CONNECTED"
             /\ \A i \in Attempts :
                  phase'[i] \in {"opening", "open"} => phase[i] \in {"opening", "open"}]_vars

\* C6: every failure of a connect attempt (a credential body with neither
\* value nor client_secret.value, a throwing fetch, a throwing transport
\* connect) leaves sessionStatus DISCONNECTED with an error message and the
\* attempt over, and a connect attempt starts only in a step that handles a
\* connect-intent.
FetchStep(i) == phase[i] = "fetching" /\ phase'[i] # "fetching"
HandshakeStep(i) == phase[i] \in {"opening", "aborted"} /\ phase'[i] # phase[i]
                      /\ op'.name \notin DisconnectIntents
FailingResult(r) == r.throws \/ (r.value = Null /\ r.client_secret_value = Null)
C6_FailureEndsDisconnectedNoRetry ==
  [][/\ \A i \in Attempts :
          (\/ FetchStep(i) /\ FailingResult(op'.result)
           \/ HandshakeStep(i) /\ op'.result.throws)
            => /\ sessionStatus' = "DISCONNECTED"
               /\ error' # NoError
               /\ phase'[i] = "failed"
               /\ Started' = Started
     /\ Started' # Started => op'.name \in ConnectIntents]_vars
C6_Witness ==
  /\ op.name = "fetch.nokey"
  /\ op.result = NoResult
  /\ sessionStatus = "DISCONNECTED"
  /\ error = "Missing ephemeral key"
  /\ \E i \in Attempts : phase[i] = "failed"

\* C7: after a failure path or a disconnect, sessionStatus is CONNECTED only
\* if the hook's current handle is open, and DISCONNECTED only if no handle is
\* opening or open.
C7_StatusMatchesHandle ==
  op.name \in DisconnectIntents \cup {"fetch.catch", "fetch.nokey", "handshake.catch"}
    => /\ sessionStatus = "CONNECTED"
            => (sessionRef # NoSession /\ phase[sessionRef] = "open")
       /\ sessionStatus = "DISCONNECTED" => LiveHandles = {}

\* C8: once the render has caught up with the state, isResponding is true
\* only while sessionStatus is CONNECTED.
C8_RespondingOnlyWhileConnected ==
  (rStatus = sessionStatus /\ isResponding) => sessionStatus = "CONNECTED"

\* C9: a click on the microphone button while sessionStatus is not CONNECTED
\* changes neither isMuted nor the audio sink nor any transport's mute state;
\* while CONNECTED it flips isMuted and leaves the sink's muted flag, its
\* volume (0 when muted, 1 otherwise) and the current transport's mute state
\* at the new value.
C9_ToggleMute ==
  [][op'.name = "click.mute" =>
       IF sessionStatus # "CONNECTED"
       THEN UNCHANGED <<isMuted, audioMuted, audioVolume, transportMuted>>
       ELSE /\ isMuted' = ~isMuted
            /\ audioMuted' = isMuted'
            /\ audioVolume' = (IF isMuted' THEN 0 ELSE 1)
            /\ sessionRef # NoSession => transportMuted'[sessionRef] = isMuted']_vars

\* C10: the events passed to sendEvent are greetings only: for every attempt
\* whose transport connect succeeded exactly one conversation.item.create
\* carrying the user text "hi" directly followed by one response.create, and
\* nothing for an attempt that failed or has not connected.
SentBy(i) == SelectSeq(sent, LAMBDA e : e.by = i)
C10_OneGreetingPerConnect ==
  /\ Len(sent) = 2 * Cardinality(Succeeded)
  /\ \A i \in Attempts : Len(SentBy(i)) = (IF i \in Succeeded THEN 2 ELSE 0)
  /\ \A k \in 1..Len(sent) :
       IF k % 2 = 1
       THEN /\ sent[k].type = "conversation.item.create"
            /\ sent[k].role = "user"
            /\ sent[k].text = "hi"
       ELSE /\ sent[k].type = "response.create"
            /\ sent[k].by = sent[k - 1].by
C10_Witness ==
  /\ Len(sent) = 2
  /\ \E i, j \in Attempts : phase[i] = "open" /\ phase[j] = "failed"

\* C11: with the frame loaded and credential and handshake succeeding, the
\* widget ends CONNECTED if the clicks leave the panel open, and ends
\* DISCONNECTED, for good, if they leave it closed.
C11_PanelDecidesConnection ==
  /\ <>[]panelOpen => <>[](sessionStatus = "CONNECTED")
  /\ <>[](~panelOpen) => <>[](sessionStatus = "DISCONNECTED")

Connect == "voicepulse.connect"
Disconnect == "voicepulse.disconnect"
EmbedClicks == {"launcher.click", "close.click", "launcher.uncaught", "close.uncaught"}

\* C12: a launcher click closes an open panel and opens a closed one; an
\* opening posts voicepulse.connect and a closing voicepulse.disconnect to
\* the frame's window; a click on the close control leaves the panel closed
\* and posts at most voicepulse.disconnect, never voicepulse.connect.
C12_LauncherToggles ==
  [][/\ op'.name = "launcher.click"
          => /\ panelOpen' = ~panelOpen
             /\ contentWindow = "window"
                  => inbox' = Append(inbox, IF panelOpen THEN Disconnect ELSE Connect)
     /\ op'.name = "close.click"
          => /\ ~panelOpen'
             /\ inbox' \in {inbox, Append(inbox, Disconnect)}
             /\ contentWindow = "window" => inbox' = Append(inbox, Disconnect)]_vars
C12_Witness ==
  /\ op.name = "close.click"
  /\ ~panelOpen
  /\ inbox = <<Connect, Disconnect, Disconnect>>

\* C13: every execution of the script that finds its script tag leaves one
\* container built from six created nodes with two listeners, and an
\* execution on a page that has the container changes nothing in the page.
C13_InstallIdempotent ==
  [][op'.name = "script.run"
       => /\ dom'.containers = 1
          /\ dom'.created = 6
          /\ dom'.listeners = 2
          /\ Installed => dom' = dom]_vars
C13_Witness ==
  /\ op.name = "script.run"
  /\ runs = 2
  /\ dom.containers = 1
  /\ dom.dataset = OtherScript

\* C14: a click while the frame's window is unavailable or rejects
\* postMessage changes the open state as any click does, queues no message
\* and lets no exception escape; a click with the window available queues
\* its message.
C14_BestEffortSignal ==
  [][op'.name \in EmbedClicks
       => /\ op'.name \in {"launcher.click", "close.click"}
          /\ panelOpen' = (IF op'.name = "launcher.click" THEN ~panelOpen ELSE FALSE)
          /\ contentWindow # "window" => inbox' = inbox
          /\ contentWindow = "window" => Len(inbox') = Len(inbox) + 1]_vars
C14_Witness ==
  /\ op.name = "launcher.click"
  /\ clicks = 3
  /\ ~panelOpen
  /\ contentWindow = "window"
  /\ inbox = <<Disconnect>>

\* C15: the iframe's URL is {host}/widget with the parameters agentConfig and
\* title, in this order, carrying the configured (or default) values, followed
\* by agentName exactly when a non-empty agent name was given; host is the
\* data-host attribute when given, else the origin of the script's URL, else
\* the empty string.
ExpectedHost(d) ==
  IF d.host \notin {Null, ""} THEN d.host
  ELSE IF d.src.parses THEN d.src.origin ELSE ""
Given(text, fallback) == IF text \in {Absent, <<>>} THEN fallback ELSE text
C15_WidgetUrl ==
  Installed =>
    LET d == dom.dataset
        url == dom.src
        q == searchParams(url)
        named == d.agentName \notin {Absent, <<>>}
    IN /\ url[1] = ExpectedHost(d)
       /\ url[2] = "/widget"
       /\ url[3] = "?"
       /\ Len(q) = (IF named THEN 3 ELSE 2)
       /\ q[1] = [key |-> "agentConfig",
                  value |-> Given(d.agentConfig, <<"chatSupervisor">>)]
       /\ q[2] = [key |-> "title",
                  value |-> Given(d.title, <<"Voice", " ", "Assistant">>)]
       /\ named => q[3] = [key |-> "agentName", value |-> d.agentName]
       /\ \A k \in 1..Len(q) : q[k].key = "agentName" => q[k].value # <<>>
C15_Witness ==
  /\ Installed
  /\ dom.dataset.host = Null
  /\ dom.dataset.src.parses
  /\ dom.dataset.agentName = <<"&">>
  /\ dom.dataset.title = <<"%">>
  /\ dom.src = <<"https://cdn.example", "/widget", "?", "agentConfig", "=",
                 "chatSupervisor", "&", "title", "=", "%", "25", "&",
                 "agentName", "=", "%", "26">>

\* C16: with data-inline="true" the container is not positioned fixed and
\* carries no corner class; without the flag it is positioned fixed, anchored
\* bottom-left for position "bottom-left" and bottom-right otherwise.
CornerClasses == {"vp-bottom-left", "vp-bottom-right"}
C16_InlineLayout ==
  Installed =>
    /\ dom.dataset.inline = "true"
         => (dom.position # "fixed" /\ dom.className \notin CornerClasses)
    /\ dom.dataset.inline = Null
         => /\ dom.position = "fixed"
            /\ dom.className = (IF dom.dataset.position = "bottom-left"
                                THEN "vp-bottom-left" ELSE "vp-bottom-right")

\* C17: a voicepulse.disconnect message handled while sessionStatus is
\* DISCONNECTED, and a message of any other type than the two protocol
\* messages, change neither sessionStatus nor the displayed error nor
\* isResponding nor isMuted.
C17_IdleDisconnectIsNoOp ==
  [][(\/ op'.name = "msg.disconnect" /\ sessionStatus = "DISCONNECTED"
      \/ op'.name = "msg.other")
       => UNCHANGED <<sessionStatus, error, isResponding, isMuted>>]_vars

\* A step in which the reasoning request in flight is answered.
ResponseStep == pc = "awaiting" /\ (pc' # pc \/ requests' # requests)
CallsOf(response) == functionCalls(response.output)

\* The text of every output_text part of every message item, in order.
RECURSIVE OutputTexts(_)
OutputTexts(output) ==
  IF output = <<>> THEN <<>>
  ELSE (IF Head(output).type = "message" THEN messageText(Head(output)) ELSE <<>>)
       \o OutputTexts(Tail(output))

\* C18: a response without function_call items ends the invocation with
\* exactly the concatenation of its output_text segments, nothing added
\* between, before or after them, and with no further reasoning request.
C18_FinalTextIsConcatenation ==
  [][(ResponseStep /\ ~currentResponse'.error /\ CallsOf(currentResponse') = <<>>)
       => /\ pc' = "done"
          /\ requests' = requests
          /\ result' = TextReturn(OutputTexts(currentResponse'.output))]_vars

C20_TransportFailureEndsInvocation ==
  [][/\ (ResponseStep /\ currentResponse'.error)
          => /\ pc' = "done"
             /\ result' = ErrorReturn
             /\ UNCHANGED <<executed, requests, input>>
     /\ pc = "done" => UNCHANGED <<pc, result, executed, requests, input>>]_vars
C20_Witness ==
  /\ pc = "done"
  /\ currentResponse.error
  /\ result = ErrorReturn
  /\ Len(requests) = 2
  /\ Len(executed) = 2

\* The names getToolResponse has a case for.
DispatchTable == {"categorizeFeedback", "saveFeedbackSummary"}

Final(response) == response.error \/ CallsOf(response) = <<>>

SuccessfulBody ==
  /\ IsOk(proxyResponse.status)
  /\ proxyResponse.body.kind = "object"
  /\ proxyResponse.body.status = "ok"

\* C23: an agent tool that calls POST /api/mcp never throws. Whatever input it
\* is given and whatever becomes of its request, execute returns a result; the
\* result is {success: false, error} when the request fails, when the status
\* is not a success status and when the body has status "error", and is
\* success: true only for a successful body.
C23_ToolsReturnFailures ==
  (caller # NoTool /\ tpc = "returned")
    => /\ toolResult.kind = "returned"
       /\ toolResult.success <=> SuccessfulBody
       /\ toolResult.success => toolResult.data = proxyResponse.body
       /\ ~toolResult.success => toolResult.error # Undefined
       /\ (IsOk(proxyResponse.status) /\ proxyResponse.body.status = "error")
            => toolResult = Failure(proxyResponse.body.message)
C23_Witness ==
  /\ tpc = "returned"
  /\ caller.name = "save_feedback_response"
  /\ Len(upstreamCalls) = 1
  /\ proxyResponse = Respond(200, JsonObject("error", "Sheet not found"))
  /\ toolResult = Failure("Sheet not found")

\* The route is past its lookup: it forwarded the request or answered it.
Routed == request.json /\ (upstreamCalls # <<>> \/ proxyResponse # NoProxyResponse)
KnownTool == request.tool \in DOMAIN toolEndpoints

\* C25: the route forwards a request only when its tool name is present and
\* is a key of the endpoint map. A missing or unknown tool name is answered
\* with 400 and no upstream call is made; a request that is forwarded carries
\* the parameters, or an empty object when there are none; a failed upstream
\* call is answered with 500 and {success: false, error}, and otherwise the
\* upstream JSON is passed on unchanged.
C25_ProxyForwardsKnownToolsOnly ==
  /\ (Routed /\ ~KnownTool)
       => /\ upstreamCalls = <<>>
          /\ proxyResponse.status = 400
          /\ proxyResponse.body.kind = "object"
  /\ (Routed /\ KnownTool)
       => /\ Len(upstreamCalls) = 1
          /\ upstreamCalls[1].endpoint = toolEndpoints[request.tool]
          /\ upstreamCalls[1].parameters =
               (IF request.parameters = NoParameters THEN EmptyObject
                ELSE request.parameters)
          /\ tpc # "upstream" => proxyResponse.status \in {200, 500}
          /\ proxyResponse.status = 500 => proxyResponse.body.message # Undefined

\* C29: every tool name an agent tool sends to POST /api/mcp is a key of the
\* route's endpoint map, so the route answers no tool's request with 400.
C29_ToolNamesAreProxyKeys ==
  (caller # NoTool /\ tpc # "idle" /\ request.json)
    => /\ request.tool = caller.sends
       /\ request.tool \in DOMAIN toolEndpoints
       /\ proxyResponse.status # 400

\* The question and the response of the call in progress.
AskedQuestion == findQuestion(surveyInput.questionId)
GivenResponse == surveyInput.response
SurveyRejected ==
  /\ spc = "returned"
  /\ surveyResult.kind = "returned"
  /\ ~surveyResult.success
  /\ surveyResult.error # ""
  /\ surveyRequests = <<>>
SurveySent(value) ==
  /\ surveyRequests = <<SurveyBody(surveyInput.questionId, value)>>
  /\ spc = "returned" => surveyResult.kind = "returned"
  /\ surveyResult.success => surveyResult.response = value
Yes == <<"y", "e", "s">>
No == <<"n", "o">>

\* C24: saveSurveyResponse validates before it stores. An unknown questionId,
\* a RATING whose integer parse is not in 1..10, a YES_NO response that is not
\* yes, no, y or n once lower-cased and trimmed, and a MULTIPLE_CHOICE
\* response that equals none of the question's options once lower-cased are
\* answered with {success: false, error} and nothing is posted to
\* /api/survey. A valid RATING is posted as the integer, a valid YES_NO as
\* 'yes' or 'no'; every other response is posted as given.
C24_ValidatedBeforeStored ==
  spc # "idle" =>
    LET q == AskedQuestion
        r == GivenResponse
        known == \E k \in 1..Len(surveyQuestions) :
                   surveyQuestions[k].id = surveyInput.questionId
        inRange == ~parseInt(r).nan /\ parseInt(r).value \in 1..10
        word == trim(toLowerCase(r))
        listed == \E k \in 1..Len(q.options) : toLowerCase(q.options[k]) = toLowerCase(r)
    IN /\ ~known => SurveyRejected
       /\ (known /\ q.type = "RATING")
            => IF inRange THEN SurveySent(NumberValue(parseInt(r).value))
               ELSE SurveyRejected
       /\ (known /\ q.type = "YES_NO")
            => IF word \in {Yes, <<"y">>} THEN SurveySent(TextValue(Yes))
               ELSE IF word \in {No, <<"n">>} THEN SurveySent(TextValue(No))
               ELSE SurveyRejected
       /\ (known /\ q.type = "MULTIPLE_CHOICE" /\ q.options # NoOptions)
            => IF listed THEN SurveySent(TextValue(r)) ELSE SurveyRejected
       /\ (known /\ q.type = "MULTIPLE_CHOICE" /\ q.options = NoOptions)
            => SurveySent(TextValue(r))
       /\ (known /\ q.type = "OPEN_ENDED") => SurveySent(TextValue(r))
C24_Witness ==
  /\ spc = "returned"
  /\ surveyInput = [questionId |-> "q1", response |-> <<"1", "0", "x">>]
  /\ surveyRequests = <<SurveyBody("q1", NumberValue(10))>>
  /\ surveyResult = SurveySuccess(NumberValue(10))

\* The frame's window was there for every signal sent so far: every click
\* posted its message.
EverySendArrived == Len(inbox) = clicks

\* No two voicepulse.connect without a voicepulse.disconnect between them.
Alternates(signals) ==
  \A i, j \in 1..Len(signals) :
    (i < j /\ signals[i] = Connect /\ signals[j] = Connect)
      => \E k \in (i + 1)..(j - 1) : signals[k] = Disconnect

\* C26: with the frame's window there for every send, the signals alternate
\* (no two connects without a disconnect between them); the first signal sent
\* is not a disconnect of a launcher click; and the panel is open exactly when
\* the last signal a launcher click posted was connect: a launcher click
\* leaves the panel open exactly when it posts connect, and no other step
\* changes whether the panel is open.
C26_SignalsAlternate ==
  /\ [](EverySendArrived => Alternates(inbox))
  /\ [][(EverySendArrived' /\ op'.name = "launcher.click" /\ inbox = <<>>)
          => inbox' = <<Connect>>]_vars
  /\ [][EverySendArrived'
          => IF op'.name = "launcher.click" /\ clicks' # clicks
             THEN panelOpen' <=> inbox' = Append(inbox, Connect)
             ELSE panelOpen' = panelOpen]_vars

\* C27: a displayed error implies SessionStatus DISCONNECTED, in every
\* reachable state.
C27_ErrorImpliesDisconnected ==
  error # NoError => sessionStatus = "DISCONNECTED"

\* C28: whenever SessionStatus is CONNECTED (and rendered), the transport of
\* the current session has the mute state isMuted; so a session opened while
\* isMuted is true has a muted transport.
C28_TransportMuteFollowsIsMuted ==
  (Rendered /\ sessionStatus = "CONNECTED" /\ sessionRef # NoSession
     /\ phase[sessionRef] = "open")
    => transportMuted[sessionRef] = isMuted

\* s is a prefix of t.
IsPrefix(s, t) == Len(s) <= Len(t) /\ SubSeq(t, 1, Len(s)) = s

\* C30: within one invocation the request history is append-only and well
\* paired. It starts with the system message and a user message built from
\* the message-type turns only; no step removes, reorders or modifies an
\* entry; every function_call_output entry directly follows the function_call
\* entry with the same call_id; and the history of every request extends the
\* history of the request before it.
C30_HistoryAppendOnly ==
  /\ [](pc # "idle"
         => /\ Len(input) >= 2
            /\ input[1] = SystemMessage
            /\ input[2].type = "message" /\ input[2].name = "user"
            /\ \A k \in 1..Len(input[2].content) : input[2].content[k].type = "message"
            /\ \A k \in 1..Len(input) :
                 input[k].type = "function_call_output"
                   => /\ k > 1
                      /\ input[k - 1].type = "function_call"
                      /\ input[k - 1].call_id = input[k].call_id
            /\ requests[1] = <<input[1], input[2]>>
            /\ \A k \in 2..Len(requests) :
                 IsPrefix(requests[k - 1], requests[k]) /\ requests[k - 1] # requests[k]
            /\ IsPrefix(requests[Len(requests)], input))
  /\ [][pc # "idle" => IsPrefix(input, input')]_vars
C30_Witness ==
  /\ pc = "done"
  /\ Len(requests) = 3
  /\ Len(input[2].content) = 2
  /\ Len(input) = 8
  /\ result.kind = "nextResponse"
====
